---- MODULE Spec2Model ----
(***************************************************************************)
(* Model of src/refactorAction.ts: the command handlers of the refactoring *)
(* commands (rename trigger, extract, move file, move instance method,     *)
(* move static member), the edit applier and the save step.                *)
(*                                                                         *)
(* One handler invocation runs at a time in specification Spec; every      *)
(* await of the source is a position of pc, and everything between two     *)
(* awaits is one action.  The language server, the user (picker), the      *)
(* file system and the editor are the environment: their answers are       *)
(* drawn with \E when the handler resumes.  A response is consumed when it *)
(* arrives, a picker is emptied when it closes, and the arguments of the   *)
(* handler are reset once the result has arrived (nothing reads them       *)
(* afterwards).  Specification SpecSave runs the save step of moveFile on  *)
(* its own, for edits of up to MaxChanges document changes.                *)
(* Specification SpecConc runs MaxConcurrent invocations of the extract    *)
(* branch side by side, each with its own position and result.             *)
(***************************************************************************)
EXTENDS Integers, Sequences, FiniteSets, TLC

\* ------------------------------------------------------------------ bounds
MaxFiles       == 2   \* length of the file list handed to moveFile
MaxDests       == 2   \* destinations in a get-move-destinations response
MaxSymbols     == 2   \* symbols in a search-symbols response
MaxScopes      == 2   \* entries of commandInfo.initializedScopes
MaxFlowChanges == 1   \* documentChanges of an edit returned inside a flow
MaxChanges     == 3   \* documentChanges of an edit given to the save step
MaxConcurrent  == 2   \* invocations of the apply-refactoring handler in SpecConc

\* ------------------------------------------------------------------ values
\* JavaScript undefined / null for a string-valued field.
Undef == "undefined"

\* JavaScript truthiness of a string-valued field: undefined and '' are falsy.
Truthy(s) == s # Undef /\ s # ""

\* Sequences over S of length 0..n.
SeqUpTo(S, n) == UNION {[1..k -> S] : k \in 0..n}

Range(s) == {s[i] : i \in 1..Len(s)}

Last(s) == s[Len(s)]

\* Sequences over S without repetition (key order of an object, Set order).
DistinctSeqs(S) == {s \in SeqUpTo(S, Cardinality(S)) :
                      \A i, j \in 1..Len(s) : i # j => s[i] # s[j]}

\* Array.prototype.join(','): the elements with ',' between them.
RECURSIVE Join(_)
Join(s) == IF Len(s) = 0 THEN <<>>
           ELSE IF Len(s) = 1 THEN <<s[1]>>
           ELSE <<s[1], ",">> \o Join(Tail(s))

\* --------------------------------------------------------- paths and files
\* A file-system path is the sequence of its segments; a file Uri is
\* identified by its fsPath.
FileDirs  == {<<"p">>, <<"p", "x">>}
FileNames == {"A", "B"}
FileUris  == {d \o <<n>> : d \in FileDirs, n \in FileNames}

\* path.dirname(fsPath)
Dirname(p) == SubSeq(p, 1, Len(p) - 1)

\* getFileNameFromUri: fsPath with everything up to the last separator removed
getFileNameFromUri(uri) == Last(uri)

\* path.join(dir, fileName)
PathJoin(dir, fileName) == dir \o <<fileName>>

\* Length of the longest common prefix of two paths.
RECURSIVE CommonLen(_, _)
CommonLen(a, b) ==
    IF Len(a) = 0 \/ Len(b) = 0 \/ a[1] # b[1] THEN 0
    ELSE 1 + CommonLen(Tail(a), Tail(b))

\* path.relative(from, to) of Node: '' (no segment) for equal paths, else one
\* '..' per remaining segment of from followed by the rest of to.
PathRelative(from, to) ==
    LET c == CommonLen(from, to)
    IN  [i \in 1..(Len(from) - c) |-> ".."] \o SubSeq(to, c + 1, Len(to))

\* A hasCommonParent that lets every list through (mutant).
hasCommonParentAccepting(uris) == TRUE

\* hasCommonParent: true for at most one uri; otherwise every parent must have
\* path.relative(firstParent, parent) equal to '.'.
hasCommonParent(uris) ==
    IF Len(uris) <= 1 THEN TRUE
    ELSE LET firstParent == Dirname(uris[1])
         IN  \A i \in 2..Len(uris) :
                PathRelative(firstParent, Dirname(uris[i])) = <<".">>

\* ------------------------------------------------------------ user messages
\* The text of a message is the sequence of its parts.
ErrorMsg(text)   == [kind |-> "error", text |-> text]
WarningMsg(text) == [kind |-> "warning", text |-> text]

DifferentDirsText ==
    <<"Moving files from different directories are not supported. Please make sure they are from the same directory.">>
NoPackagesText ==
    <<"Cannot find available Java packages to move the selected files to.">>
NoClassTargetsText ==
    <<"Cannot find possible class targets to move the selected method to.">>
DuplicatedText(duplicatedFiles, displayName) ==
    <<"The files '">> \o Join(duplicatedFiles)
      \o <<"' already exist in the package '", displayName,
           "'. The move operation will ignore them.">>

\* ------------------------------------------------- workspace edits, results
\* Document uris named by an edit (strings, compared as the Set compares them).
EditUris == {"u1", "u2"}

\* One entry of edit.documentChanges.  kind "text" is a TextDocumentEdit (its
\* kind field is undefined); for a rename uri is oldUri.
TextChange(u)      == [kind |-> "text",   uri |-> u, newUri |-> Undef]
CreateChange(u)    == [kind |-> "create", uri |-> u, newUri |-> Undef]
DeleteChange(u)    == [kind |-> "delete", uri |-> u, newUri |-> Undef]
RenameChange(o, n) == [kind |-> "rename", uri |-> o, newUri |-> n]

DocumentChanges ==
    {TextChange(u) : u \in EditUris} \cup {CreateChange(u) : u \in EditUris}
      \cup {DeleteChange(u) : u \in EditUris}
      \cup {RenameChange(o, n) : o \in EditUris, n \in EditUris}

\* A WorkspaceEdit: the keys of edit.changes in key order, and documentChanges.
NoEdit == [present |-> FALSE, changes |-> <<>>, documentChanges |-> <<>>]
EditsUpTo(n) == [present : {TRUE}, changes : DistinctSeqs(EditUris),
                 documentChanges : SeqUpTo(DocumentChanges, n)]

\* The follow-up command of a result.
NoCommand == [present |-> FALSE, command |-> Undef, hasArguments |-> FALSE,
              arguments |-> <<>>]
FollowUps == {NoCommand,
              [present |-> TRUE, command |-> "java.followUp",
               hasArguments |-> FALSE, arguments |-> <<>>],
              [present |-> TRUE, command |-> "java.followUp",
               hasArguments |-> TRUE, arguments |-> <<"a1">>]}

ErrorMessages == {Undef, "", "E1"}

\* A RefactorWorkspaceEdit as the server returns it; NullResult is a missing
\* response.
NullResult == [isNull |-> TRUE, errorMessage |-> Undef, edit |-> NoEdit,
               command |-> NoCommand]
ResultsUpTo(n) ==
    {NullResult} \cup
    [isNull : {FALSE}, errorMessage : ErrorMessages,
     edit : {NoEdit} \cup EditsUpTo(n), command : FollowUps]

\* --------------------------------------------------------------- edit applier
\* applyRefactorEdit up to its first await.  The outcome names what the
\* synchronous prefix did: "return" (no result), "error" (message shown),
\* "applyEdit" (workspace.applyEdit called), "execute" (follow-up command
\* called), "finished" (nothing to do).

\* An applier without the errorMessage test (mutant).
applyRefactorEditNoErrorCheck(refactorEdit) ==
    IF refactorEdit.isNull THEN "return"
    ELSE IF refactorEdit.edit.present THEN "applyEdit"
    ELSE IF refactorEdit.command.present THEN "execute"
    ELSE "finished"

\* An applier that calls the follow-up command before the edit (mutant).
applyRefactorEditCommandFirst(refactorEdit) ==
    IF refactorEdit.isNull THEN "return"
    ELSE IF Truthy(refactorEdit.errorMessage) THEN "error"
    ELSE IF refactorEdit.command.present THEN "execute"
    ELSE IF refactorEdit.edit.present THEN "applyEdit"
    ELSE "finished"

applyRefactorEdit(refactorEdit) ==
    IF refactorEdit.isNull THEN "return"
    ELSE IF Truthy(refactorEdit.errorMessage) THEN "error"
    ELSE IF refactorEdit.edit.present THEN "applyEdit"
    ELSE IF refactorEdit.command.present THEN "execute"
    ELSE "finished"

\* applyRefactorEdit after workspace.applyEdit has resolved.
applyRefactorEditAfterEdit(refactorEdit) ==
    IF refactorEdit.command.present THEN "execute" ELSE "finished"

\* The call made for the follow-up command: with the spread arguments when the
\* arguments field is set, without arguments otherwise.
CommandCall(command) ==
    [command |-> command.command,
     arguments |-> IF command.hasArguments THEN command.arguments ELSE <<>>]

\* ------------------------------------------------------------------ save step
\* Set<string> in insertion order.
SetAdd(s, u)    == IF u \in Range(s) THEN s ELSE Append(s, u)
SetDelete(s, u) == SelectSeq(s, LAMBDA x : x # u)

\* A rename branch that adds the new uri and forgets to delete the old one
\* (mutant).
TouchChangeKeepOld(touchedFiles, change) ==
    IF change.kind = "rename"
      THEN IF change.uri \in Range(touchedFiles)
             THEN SetAdd(touchedFiles, change.newUri)
             ELSE touchedFiles
    ELSE IF change.kind = "delete"
      THEN IF change.uri \in Range(touchedFiles)
             THEN SetDelete(touchedFiles, change.uri)
             ELSE touchedFiles
    ELSE IF change.kind = "text"
      THEN SetAdd(touchedFiles, change.uri)
    ELSE touchedFiles

\* A rename branch that adds the new uri whether or not the old one is a
\* target (mutant).
TouchChangeRenameAlways(touchedFiles, change) ==
    IF change.kind = "rename"
      THEN SetAdd(SetDelete(touchedFiles, change.uri), change.newUri)
    ELSE IF change.kind = "delete"
      THEN IF change.uri \in Range(touchedFiles)
             THEN SetDelete(touchedFiles, change.uri)
             ELSE touchedFiles
    ELSE IF change.kind = "text"
      THEN SetAdd(touchedFiles, change.uri)
    ELSE touchedFiles

\* One iteration of the loop over edit.documentChanges in saveEdit.
TouchChange(touchedFiles, change) ==
    IF change.kind = "rename"
      THEN IF change.uri \in Range(touchedFiles)
             THEN SetAdd(SetDelete(touchedFiles, change.uri), change.newUri)
             ELSE touchedFiles
    ELSE IF change.kind = "delete"
      THEN IF change.uri \in Range(touchedFiles)
             THEN SetDelete(touchedFiles, change.uri)
             ELSE touchedFiles
    ELSE IF change.kind = "text"
      THEN SetAdd(touchedFiles, change.uri)
    ELSE touchedFiles

RECURSIVE TouchAll(_, _)
TouchAll(touchedFiles, changes) ==
    IF Len(changes) = 0 THEN touchedFiles
    ELSE TouchAll(TouchChange(touchedFiles, changes[1]), Tail(changes))

\* The save targets of saveEdit: the keys of edit.changes, then the
\* documentChanges in order.
TouchedFilesOf(edit) == TouchAll(edit.changes, edit.documentChanges)

\* ---------------------------------------------------------------------- state
VARIABLES
    pc,            \* position of the running handler ("idle": none running)
    flow,          \* which handler runs
    command,       \* the command argument of the apply-refactoring handler
    fileUris,      \* moveFile: the fileUris parameter / local
    commandInfo,   \* the commandInfo / position argument of the handler
    exclude,       \* moveStaticMember: the exclude set
    inFlight,      \* the request awaiting its response, or NoRequest
    pickerItems,   \* the items of the picker that is (or was last) shown
    fs,            \* moveFile: paths existsSync found to exist
    refactorEdit,  \* the RefactorWorkspaceEdit received
    touchedFiles,  \* saveEdit: the save targets
    saveLog,       \* saveEdit: per processed target, what open/save did
    messages,      \* messages shown by window.show*Message, in order
    sent,          \* request types sent to the language server, in order
    prompts,       \* number of pickers shown
    applyEdits,    \* number of workspace.applyEdit calls
    executed,      \* commands.executeCommand calls, in order
    dismissed,     \* the user dismissed a picker of this invocation
    errReceived,   \* truthy errorMessage fields received in responses
    moveDestinations, \* the get-move-destinations response (undefined before)
    pickResult,        \* what showQuickPick resolved to, NoItem before and when
                   \* dismissed
    caught,        \* rename trigger: the steps whose failure was caught
    invocations,   \* SpecConc: per invocation, its position and its result
    started,       \* SpecConc: invocations in the order they were started
    applyLog       \* SpecConc: invocations in the order of their
                   \* workspace.applyEdit calls

flowVars == <<pc, flow, command, fileUris, commandInfo, exclude, inFlight, pickerItems, fs,
          refactorEdit, touchedFiles, saveLog, messages, sent,
          prompts, applyEdits, executed, dismissed, errReceived,
          moveDestinations, pickResult, caught>>
concVars == <<invocations, started, applyLog>>
vars == <<flowVars, concVars>>

\* The invocations of SpecConc, and one that has not been started.
Handlers == 1..MaxConcurrent
NotStarted == [pc |-> "idle", refactorEdit |-> NullResult]

\* A destination node (package, class target or symbol); the fields a kind of
\* node does not have keep their default.  NoNode stands for null / undefined.
NoNode == [id |-> "none", uri |-> <<>>, displayName |-> Undef, path |-> <<>>,
           isParentOfSelectedFile |-> FALSE, name |-> Undef, type |-> Undef,
           isField |-> FALSE, containerName |-> <<>>]

\* Package nodes of a get-move-destinations response of moveFile: one with a
\* uri (the directory <<"p">>), one with only a path.
PackageNodes ==
    {[NoNode EXCEPT !.id = "pkgP", !.uri = <<"p">>, !.displayName = "p",
                    !.path = <<"src", "p">>, !.isParentOfSelectedFile = TRUE],
     [NoNode EXCEPT !.id = "pkgR", !.displayName = "r",
                    !.path = <<"src", "r">>]}

\* Destinations of a get-move-destinations response of moveInstanceMethod.
MethodDestinations ==
    {[NoNode EXCEPT !.id = "destF", !.name = "f", !.type = "T",
                    !.isField = TRUE],
     [NoNode EXCEPT !.id = "destP", !.name = "q", !.type = "U"]}

\* Symbols of a search-symbols response; SymbolNames is in ascending string
\* order.
SymbolNames == <<"E", "Outer">>
Symbols ==
    {[NoNode EXCEPT !.id = "symbol", !.name = n, !.containerName = c] :
        n \in Range(SymbolNames), c \in {<<>>, <<"Outer">>}}

\* a.name < b.name on strings.
NameLess(a, b) ==
    \E i, j \in 1..Len(SymbolNames) :
        SymbolNames[i] = a /\ SymbolNames[j] = b /\ i < j

\* A get-move-destinations response; NullDestinations is a missing response.
NullDestinations == [isNull |-> TRUE, errorMessage |-> Undef,
                     destinations |-> <<>>]
DestinationsOver(nodes) ==
    {NullDestinations} \cup
    [isNull : {FALSE}, errorMessage : ErrorMessages,
     destinations : SeqUpTo(nodes, MaxDests)]

\* A search-symbols response.
SymbolResponses ==
    [isNull : {TRUE}, types : {<<>>}] \cup
    [isNull : {FALSE}, types : SeqUpTo(Symbols, MaxSymbols)]

\* A picker item, and the result of a dismissed picker.
Item(label, description, node) ==
    [label |-> label, description |-> description, node |-> node]
NoItem == Item(<<>>, <<>>, NoNode)

\* What showQuickPick resolves to: choice 0 is a dismissal.
PickerResult(items, choice) == IF choice = 0 THEN NoItem ELSE items[choice]

\* A test of the picker result that never sees a dismissal (mutant).
NotSelectedNever(item) == FALSE

\* !selected: the picker was dismissed.
NotSelected(item) == item = NoItem

\* A request to the language server.
NoRequest == [type |-> "none", command |-> Undef, moveKind |-> Undef,
              sourceUris |-> <<>>, destination |-> NoNode,
              commandArguments |-> <<>>]

\* A sendRequest that sends again what it has sent (mutant).
SendRequestTwice(log, type) == log \o <<type, type>>

\* languageClient.sendRequest: one more request on the wire.
SendRequest(log, type) == Append(log, type)

\* The document of params.textDocument.uri.
DocUri == <<"p", "A">>

\* The commandInfo argument (for the rename trigger: the RenamePosition, a uri
\* and an offset); NoCommandInfo is null / undefined.  uri <<>>,
\* enclosingTypeName <<>>, displayName Undef and member types 0 are unset
\* fields; hasScopes says whether initializedScopes is an array.
NoCommandInfo == [isNull |-> TRUE, uri |-> <<>>, hasScopes |-> FALSE,
                  initializedScopes |-> <<>>, enclosingTypeName |-> <<>>,
                  displayName |-> Undef, memberType |-> 0,
                  memeberType |-> 0, offset |-> 0]
EmptyCommandInfo == [NoCommandInfo EXCEPT !.isNull = FALSE]

Scopes == {"s1", "s2"}
ExtractCommands == {"extractVariable", "extractVariableAllOccurrence",
                    "extractConstant", "extractMethod", "extractField",
                    "convertVariableToField", "invertVariable"}
FieldCommands == {"extractField", "convertVariableToField"}

ExtractInfos ==
    {NoCommandInfo, EmptyCommandInfo} \cup
    {[EmptyCommandInfo EXCEPT !.hasScopes = TRUE, !.initializedScopes = sc] :
        sc \in SeqUpTo(Scopes, MaxScopes)}

MoveFileInfos ==
    {NoCommandInfo, EmptyCommandInfo} \cup
    {[EmptyCommandInfo EXCEPT !.uri = u] : u \in FileUris}

MethodInfos ==
    {NoCommandInfo, EmptyCommandInfo,
     [EmptyCommandInfo EXCEPT !.displayName = "m"]}

MemberInfos ==
    {NoCommandInfo} \cup
    {[EmptyCommandInfo EXCEPT !.enclosingTypeName = e, !.displayName = d,
                              !.memberType = t, !.memeberType = tt] :
        e \in {<<>>, <<"Outer">>}, d \in {Undef, "E"},
        t \in {0, 8, 55, 71, 81}, tt \in {0, 71}}

\* The state with no handler running.
Idle ==
    /\ pc = "idle" /\ flow = "none" /\ command = Undef /\ fileUris = <<>>
    /\ commandInfo = NoCommandInfo /\ exclude = {} /\ inFlight = NoRequest
    /\ pickerItems = <<>> /\ fs = {} /\ refactorEdit = NullResult
    /\ touchedFiles = <<>> /\ saveLog = <<>> /\ messages = <<>>
    /\ sent = <<>> /\ prompts = 0 /\ applyEdits = 0
    /\ executed = <<>> /\ dismissed = FALSE /\ errReceived = {}
    /\ moveDestinations = NullDestinations /\ pickResult = NoItem
    /\ caught = <<>>
    /\ invocations = [h \in Handlers |-> NotStarted]
    /\ started = <<>> /\ applyLog = <<>>

Init == Idle

\* Groups of variables for UNCHANGED.
saveVars   == <<touchedFiles, saveLog>>
editorVars == <<applyEdits, executed>>
localVars  == <<command, commandInfo, exclude, fileUris, fs>>

\* Leaving a handler before any request was sent or picker shown.
Stop(at) ==
    /\ pc' = at
    /\ UNCHANGED <<inFlight, pickerItems, refactorEdit, saveVars, sent,
                   prompts, editorVars, dismissed, errReceived>>

\* ------------------------------------------------------------- rename trigger
\* The document of the rename position: the lengths of its lines, each with
\* its line break, and the offsets the server may name.
RenameLineLengths == <<3, 2>>
RenameOffsets == {0, 4, 9}

RECURSIVE SumTo(_, _)
SumTo(lens, k) == IF k = 0 THEN 0 ELSE lens[k] + SumTo(lens, k - 1)

\* document.positionAt(offset): the offset is clamped into the document and
\* split into the line it falls on and the character within that line.
PositionAt(offset) ==
    LET total == SumTo(RenameLineLengths, Len(RenameLineLengths))
        off   == IF offset > total THEN total ELSE offset
        line  == CHOOSE l \in 1..Len(RenameLineLengths) :
                    /\ SumTo(RenameLineLengths, l - 1) <= off
                    /\ \/ l = Len(RenameLineLengths)
                       \/ off < SumTo(RenameLineLengths, l)
    IN  [line |-> line - 1,
         character |-> off - SumTo(RenameLineLengths, line - 1)]

\* A failure that escapes the handler (mutant).
RenameCatchRethrows(step) == "threw"

\* The catch block of the RENAME_COMMAND handler: it does nothing, so the
\* handler completes normally whatever step failed.
RenameCatch(step) == "done"

\* RENAME_COMMAND handler up to the await of openTextDocument; a throwing
\* Uri.parse is caught and ends the handler.
InvokeRename ==
    /\ UNCHANGED concVars
    /\ UNCHANGED <<moveDestinations, pickResult>>
    /\ pc = "idle"
    /\ flow' = "rename"
    /\ \E parses \in BOOLEAN, offset \in RenameOffsets :
         /\ pc' = IF parses THEN "rn_open" ELSE RenameCatch("Uri.parse")
         /\ caught' = IF parses THEN <<>> ELSE <<"Uri.parse">>
         /\ commandInfo' = [NoCommandInfo EXCEPT !.isNull = FALSE,
                                                 !.uri = DocUri,
                                                 !.offset = offset]
    /\ UNCHANGED <<command, exclude, fileUris, fs, inFlight, pickerItems,
                   refactorEdit, saveVars, messages, sent, prompts,
                   editorVars, dismissed, errReceived>>

\* openTextDocument has settled: with a document the position is computed and
\* editor.action.rename is executed; a null document ends the handler, and a
\* rejection or a throwing positionAt lands in the catch block.
RenameOpened ==
    /\ UNCHANGED concVars
    /\ UNCHANGED <<moveDestinations, pickResult>>
    /\ pc = "rn_open"
    /\ \E outcome \in {"document", "null", "throws", "positionAtThrows"} :
         IF outcome = "document"
           THEN /\ executed' = Append(executed,
                      [command |-> "editor.action.rename",
                       arguments |-> <<commandInfo.uri,
                                       PositionAt(commandInfo.offset)>>])
                /\ pc' = "rn_exec"
                /\ UNCHANGED caught
           ELSE IF outcome = "null"
           THEN /\ pc' = "done"
                /\ UNCHANGED <<executed, caught>>
           ELSE IF outcome = "throws"
           THEN /\ pc' = RenameCatch("openTextDocument")
                /\ caught' = Append(caught, "openTextDocument")
                /\ UNCHANGED executed
           ELSE /\ pc' = RenameCatch("positionAt")
                /\ caught' = Append(caught, "positionAt")
                /\ UNCHANGED executed
    /\ UNCHANGED <<flow, localVars, inFlight, pickerItems, refactorEdit,
                   saveVars, messages, sent, prompts, applyEdits, dismissed,
                   errReceived>>

\* editor.action.rename has settled; a rejection is caught.
RenameExecuted ==
    /\ UNCHANGED concVars
    /\ UNCHANGED <<moveDestinations, pickResult>>
    /\ pc = "rn_exec"
    /\ \E outcome \in {"resolves", "throws"} :
         IF outcome = "resolves"
           THEN /\ pc' = "done"
                /\ UNCHANGED caught
           ELSE /\ pc' = RenameCatch("executeCommand")
                /\ caught' = Append(caught, "executeCommand")
    /\ UNCHANGED <<flow, localVars, inFlight, pickerItems, refactorEdit,
                   saveVars, messages, sent, prompts, editorVars, dismissed,
                   errReceived>>

\* ---------------------------------------------------------------- extract flow
\* A request that leaves the extra arguments out (mutant).
RefactorEditRequestNoArguments(cmd, arguments) ==
    [type |-> "getRefactorEdit", command |-> cmd, moveKind |-> Undef,
     sourceUris |-> <<>>, destination |-> NoNode,
     commandArguments |-> <<>>]

\* The compute-refactor-edit request.
RefactorEditRequest(cmd, arguments) ==
    [type |-> "getRefactorEdit", command |-> cmd, moveKind |-> Undef,
     sourceUris |-> <<>>, destination |-> NoNode,
     commandArguments |-> arguments]

\* The scopes as picker items.
ScopeItems(scopes) ==
    [i \in 1..Len(scopes) |-> Item(<<scopes[i]>>, <<>>,
                                   [NoNode EXCEPT !.id = scopes[i]])]

\* APPLY_REFACTORING_COMMAND handler, extract branch, up to its first await:
\* the scope picker for a field command with several scopes, else the request.
InvokeExtract ==
    /\ UNCHANGED concVars
    /\ UNCHANGED <<moveDestinations, pickResult, caught>>
    /\ pc = "idle"
    /\ flow' = "extract"
    /\ \E cmd \in ExtractCommands, info \in ExtractInfos, editor \in BOOLEAN :
         /\ command' = cmd
         /\ commandInfo' = info
         /\ IF ~editor
              THEN /\ Stop("done") /\ UNCHANGED messages
            ELSE IF cmd \in FieldCommands /\ info.isNull
              THEN /\ Stop("threw") /\ UNCHANGED messages
            ELSE IF cmd \in FieldCommands /\ info.hasScopes
                      /\ Len(info.initializedScopes) > 1
              THEN /\ pickerItems' = ScopeItems(info.initializedScopes)
                   /\ prompts' = prompts + 1
                   /\ pc' = "ex_pick"
                   /\ UNCHANGED <<inFlight, sent, messages>>
            ELSE LET arguments ==
                       IF cmd \in FieldCommands /\ info.hasScopes
                         THEN IF Len(info.initializedScopes) = 1
                                THEN <<info.initializedScopes[1]>>
                                ELSE <<Undef>>
                         ELSE <<>>
                 IN  /\ inFlight' = RefactorEditRequest(cmd, arguments)
                     /\ sent' = SendRequest(sent, "getRefactorEdit")
                     /\ pc' = "ex_wait"
                     /\ UNCHANGED <<pickerItems, prompts, messages>>
    /\ UNCHANGED <<exclude, fileUris, fs, refactorEdit, saveVars, editorVars,
                   dismissed, errReceived>>

\* The scope picker has resolved: a dismissal ends the handler, a choice is
\* sent as the command argument.
ExtractPicked ==
    /\ UNCHANGED concVars
    /\ UNCHANGED <<moveDestinations, caught>>
    /\ pc = "ex_pick"
    /\ \E choice \in 0..Len(pickerItems) :
         LET initializeIn == PickerResult(pickerItems, choice)
         IN  /\ dismissed' = (choice = 0)
             /\ pickResult' = initializeIn
             /\ IF NotSelected(initializeIn)
                  THEN /\ pc' = "done"
                       /\ UNCHANGED <<inFlight, sent>>
                  ELSE /\ inFlight' = RefactorEditRequest(command,
                                          <<initializeIn.node.id>>)
                       /\ sent' = SendRequest(sent, "getRefactorEdit")
                       /\ pc' = "ex_wait"
    /\ pickerItems' = <<>>
    /\ UNCHANGED <<flow, localVars, refactorEdit, saveVars, messages, prompts,
                   editorVars, errReceived>>

\* ------------------------------------------------------------- move-file flow
\* The get-move-destinations request.
DestinationsRequest(kind, uris) ==
    [type |-> "getMoveDestinations", command |-> Undef, moveKind |-> kind,
     sourceUris |-> uris, destination |-> NoNode, commandArguments |-> <<>>]

\* The move request.
MoveRequest(kind, uris, node) ==
    [type |-> "move", command |-> Undef, moveKind |-> kind,
     sourceUris |-> uris, destination |-> node, commandArguments |-> <<>>]

\* workspace.asRelativePath(uri, true): the path below the workspace folder,
\* led by the folder's name.
AsRelativePath(uri) == <<"workspace">> \o uri

\* The picker items of moveFile.
PackageItems(destinations) ==
    [i \in 1..Len(destinations) |->
        LET packageNode == destinations[i]
        IN  Item((IF packageNode.isParentOfSelectedFile THEN <<"* ">>
                  ELSE <<>>) \o <<packageNode.displayName>>,
                 IF Len(packageNode.uri) > 0
                   THEN AsRelativePath(packageNode.uri)
                   ELSE packageNode.path,
                 packageNode)]

\* moveFile up to its first await: the common-parent test and the
\* get-move-destinations request.
MoveFileEntry(uris) ==
    /\ fileUris' = uris
    /\ IF ~hasCommonParent(uris)
         THEN /\ messages' = Append(messages, ErrorMsg(DifferentDirsText))
              /\ Stop("done")
         ELSE /\ inFlight' = DestinationsRequest("moveResource", uris)
              /\ sent' = SendRequest(sent, "getMoveDestinations")
              /\ pc' = "mf_dest"
              /\ UNCHANGED <<pickerItems, refactorEdit, saveVars, messages,
                             prompts, editorVars, dismissed, errReceived>>

\* APPLY_REFACTORING_COMMAND handler, moveFile branch: without a commandInfo
\* uri it returns, else it calls moveFile with that one file.
InvokeMoveFile ==
    /\ UNCHANGED concVars
    /\ UNCHANGED <<moveDestinations, pickResult, caught>>
    /\ pc = "idle"
    /\ flow' = "moveFile" /\ command' = "moveFile"
    /\ \E info \in MoveFileInfos :
         /\ commandInfo' = info
         /\ IF info.isNull \/ Len(info.uri) = 0
              THEN /\ Stop("done") /\ UNCHANGED <<fileUris, messages>>
              ELSE MoveFileEntry(<<info.uri>>)
    /\ UNCHANGED <<exclude, fs>>

\* moveFile called with a list of several different files (its parameter is a
\* list; the command handler above passes one file).
CallMoveFile ==
    /\ UNCHANGED concVars
    /\ UNCHANGED <<moveDestinations, pickResult, caught>>
    /\ pc = "idle"
    /\ flow' = "moveFile" /\ command' = "moveFile"
    /\ \E uris \in SeqUpTo(FileUris, MaxFiles) :
         /\ Len(uris) >= 2
         /\ \A i, j \in 1..Len(uris) : i # j => uris[i] # uris[j]
         /\ MoveFileEntry(uris)
    /\ UNCHANGED <<commandInfo, exclude, fs>>

\* A test that never finds the response empty (mutant).
NoDestinationsNever(response) == FALSE

\* !moveDestinations || !moveDestinations.destinations
\*   || !moveDestinations.destinations.length
NoDestinations(response) ==
    response.isNull \/ Len(response.destinations) = 0

\* The get-move-destinations response of moveFile has arrived: without
\* destinations the failure message, else the package picker.
MoveFileDestinations ==
    /\ UNCHANGED concVars
    /\ UNCHANGED <<pickResult, caught>>
    /\ pc = "mf_dest"
    /\ \E response \in DestinationsOver(PackageNodes) :
         /\ moveDestinations' = response
         /\ errReceived' = IF Truthy(response.errorMessage)
                             THEN errReceived
                                    \cup {response.errorMessage}
                             ELSE errReceived
         /\ IF NoDestinations(response)
              THEN /\ messages' = Append(messages, ErrorMsg(NoPackagesText))
                   /\ pc' = "done"
                   /\ UNCHANGED <<pickerItems, prompts>>
              ELSE /\ pickerItems' =
                        PackageItems(response.destinations)
                   /\ prompts' = prompts + 1
                   /\ pc' = "mf_pick"
                   /\ UNCHANGED messages
    /\ inFlight' = NoRequest
    /\ UNCHANGED <<flow, localVars, refactorEdit, saveVars, sent, editorVars,
                   dismissed>>

\* The paths existsSync is asked about for a package directory.
ProbedPaths(packageUri, uris) ==
    {PathJoin(packageUri, getFileNameFromUri(uris[i])) : i \in 1..Len(uris)}

\* A filter that lets every file through (mutant).
NonCollidingAll(uris, packageUri, existing) == uris

\* The files of the list whose name exists in the package directory, and the
\* others, in list order.
Colliding(uris, packageUri, existing) ==
    SelectSeq(uris, LAMBDA u :
        PathJoin(packageUri, getFileNameFromUri(u)) \in existing)
NonColliding(uris, packageUri, existing) ==
    SelectSeq(uris, LAMBDA u :
        PathJoin(packageUri, getFileNameFromUri(u)) \notin existing)
FileNamesOf(uris) == [i \in 1..Len(uris) |-> getFileNameFromUri(uris[i])]

\* The package picker has resolved: a dismissal ends the handler; for a
\* package with a uri the files that exist there are dropped with a warning
\* and the handler ends when none is left; the move request is sent.
MoveFilePicked ==
    /\ UNCHANGED concVars
    /\ UNCHANGED caught
    /\ moveDestinations' = NullDestinations
    /\ pc = "mf_pick"
    /\ \E choice \in 0..Len(pickerItems) :
         LET selectPackageNodeItem == PickerResult(pickerItems, choice)
             packageNode == selectPackageNodeItem.node
             packageUri  == packageNode.uri
         IN  /\ dismissed' = (choice = 0)
             /\ pickResult' = selectPackageNodeItem
             /\ IF NotSelected(selectPackageNodeItem)
                  THEN /\ pc' = "done"
                       /\ UNCHANGED <<fileUris, fs, inFlight, sent, messages>>
                ELSE IF Len(packageUri) > 0
                  THEN \E existing \in
                             SUBSET ProbedPaths(packageUri, fileUris) :
                         LET duplicatedFiles ==
                                 FileNamesOf(Colliding(fileUris, packageUri,
                                                       existing))
                             moveUris ==
                                 NonColliding(fileUris, packageUri, existing)
                         IN  /\ fs' = existing
                             /\ messages' =
                                  IF Len(duplicatedFiles) > 0
                                    THEN Append(messages, WarningMsg(
                                           DuplicatedText(duplicatedFiles,
                                              packageNode.displayName)))
                                    ELSE messages
                             /\ IF Len(moveUris) = 0
                                  THEN /\ pc' = "done"
                                       /\ UNCHANGED <<fileUris, inFlight,
                                                      sent>>
                                  ELSE /\ fileUris' = moveUris
                                       /\ inFlight' =
                                            MoveRequest("moveResource",
                                                        moveUris, packageNode)
                                       /\ sent' = SendRequest(sent, "move")
                                       /\ pc' = "mv_wait"
                ELSE /\ inFlight' = MoveRequest("moveResource", fileUris,
                                                packageNode)
                     /\ sent' = SendRequest(sent, "move")
                     /\ pc' = "mv_wait"
                     /\ UNCHANGED <<fileUris, fs, messages>>
    /\ pickerItems' = <<>>
    /\ UNCHANGED <<flow, command, commandInfo, exclude, refactorEdit, saveVars,
                   prompts, editorVars, errReceived>>

\* -------------------------------------------------- move-instance-method flow
\* moveInstanceMethod up to its first await.
InvokeMoveInstanceMethod ==
    /\ UNCHANGED concVars
    /\ UNCHANGED <<moveDestinations, pickResult, caught>>
    /\ pc = "idle"
    /\ flow' = "moveInstanceMethod" /\ command' = "moveInstanceMethod"
    /\ \E info \in MethodInfos : commandInfo' = info
    /\ inFlight' = DestinationsRequest("moveInstanceMethod", <<DocUri>>)
    /\ sent' = SendRequest(sent, "getMoveDestinations")
    /\ pc' = "mi_dest"
    /\ UNCHANGED <<exclude, fileUris, fs, pickerItems, refactorEdit, saveVars,
                   messages, prompts, editorVars, dismissed, errReceived>>

\* The picker items of moveInstanceMethod.
DestinationItems(destinations) ==
    [i \in 1..Len(destinations) |->
        Item(<<destinations[i].type, " ", destinations[i].name>>,
             IF destinations[i].isField THEN <<"Field">>
             ELSE <<"Method Parameter">>,
             destinations[i])]

\* The get-move-destinations response of moveInstanceMethod has arrived: its
\* error message, or the failure message without destinations, else the
\* picker.
MoveInstanceMethodDestinations ==
    /\ UNCHANGED concVars
    /\ UNCHANGED <<pickResult, caught>>
    /\ pc = "mi_dest"
    /\ \E response \in DestinationsOver(MethodDestinations) :
         /\ moveDestinations' = response
         /\ errReceived' = IF Truthy(response.errorMessage)
                             THEN errReceived
                                    \cup {response.errorMessage}
                             ELSE errReceived
         /\ IF ~response.isNull
                 /\ Truthy(response.errorMessage)
              THEN /\ messages' = Append(messages,
                          ErrorMsg(<<response.errorMessage>>))
                   /\ pc' = "done"
                   /\ UNCHANGED <<pickerItems, prompts>>
            ELSE IF NoDestinations(response)
              THEN /\ messages' = Append(messages,
                                         ErrorMsg(NoClassTargetsText))
                   /\ pc' = "done"
                   /\ UNCHANGED <<pickerItems, prompts>>
            ELSE /\ pickerItems' =
                      DestinationItems(response.destinations)
                 /\ prompts' = prompts + 1
                 /\ pc' = "mi_pick"
                 /\ UNCHANGED messages
    /\ inFlight' = NoRequest
    /\ UNCHANGED <<flow, localVars, refactorEdit, saveVars, sent, editorVars,
                   dismissed>>

\* The class picker has resolved: a dismissal ends the handler, a choice is
\* sent in the move request.
MoveInstanceMethodPicked ==
    /\ UNCHANGED concVars
    /\ UNCHANGED caught
    /\ moveDestinations' = NullDestinations
    /\ pc = "mi_pick"
    /\ \E choice \in 0..Len(pickerItems) :
         LET selected == PickerResult(pickerItems, choice)
         IN  /\ dismissed' = (choice = 0)
             /\ pickResult' = selected
             /\ IF NotSelected(selected)
                  THEN /\ pc' = "done"
                       /\ UNCHANGED <<inFlight, sent>>
                  ELSE /\ inFlight' = MoveRequest("moveInstanceMethod",
                                                  <<DocUri>>, selected.node)
                       /\ sent' = SendRequest(sent, "move")
                       /\ pc' = "mv_wait"
    /\ pickerItems' = <<>>
    /\ UNCHANGED <<flow, localVars, refactorEdit, saveVars, messages, prompts,
                   editorVars, errReceived>>

\* --------------------------------------------------- move-static-member flow
\* An exclude set without the enclosing type (mutant).
ExcludeOfMemberOnly(info) ==
    IF Len(info.enclosingTypeName) > 0
         /\ (info.memberType = 55 \/ info.memeberType = 71
               \/ info.memberType = 81)
      THEN {info.enclosingTypeName \o <<info.displayName>>}
      ELSE {}

\* The exclude set of moveStaticMember: the enclosing type and, for the member
\* kinds the condition lets through, the member itself.  The second test reads
\* the field memeberType.
ExcludeOf(info) ==
    IF Len(info.enclosingTypeName) > 0
      THEN {info.enclosingTypeName}
             \cup (IF info.memberType = 55 \/ info.memeberType = 71
                        \/ info.memberType = 81
                     THEN {info.enclosingTypeName \o <<info.displayName>>}
                     ELSE {})
      ELSE {}

\* containerName.name, or name without a container.
TypeName(type) ==
    IF Len(type.containerName) > 0 THEN type.containerName \o <<type.name>>
    ELSE <<type.name>>

\* Array.prototype.sort by name (stable): insertion into the sorted prefix
\* after every element that is not greater.
RECURSIVE InsertByName(_, _)
InsertByName(sorted, x) ==
    IF Len(sorted) = 0 THEN <<x>>
    ELSE IF NameLess(x.name, sorted[1].name) THEN <<x>> \o sorted
    ELSE <<sorted[1]>> \o InsertByName(Tail(sorted), x)

RECURSIVE SortByName(_)
SortByName(types) ==
    IF Len(types) = 0 THEN <<>>
    ELSE InsertByName(SortByName(SubSeq(types, 1, Len(types) - 1)),
                      types[Len(types)])

NoResultItem == Item(<<"No result found">>, <<>>, NoNode)

\* The picker items of moveStaticMember for a search-symbols response.
StaticMemberItems(response, excluded) ==
    IF ~response.isNull /\ Len(response.types) > 0
      THEN LET kept == SortByName(SelectSeq(response.types,
                           LAMBDA type : TypeName(type) \notin excluded))
           IN  [i \in 1..Len(kept) |->
                  Item(<<kept[i].name>>, kept[i].containerName, kept[i])]
      ELSE <<NoResultItem>>

\* The search-symbols request.
SearchSymbolsRequest ==
    [type |-> "searchSymbols", command |-> Undef, moveKind |-> Undef,
     sourceUris |-> <<>>, destination |-> NoNode, commandArguments |-> <<"*">>]

\* moveStaticMember up to its first await: reading enclosingTypeName of a
\* null commandInfo throws; else the exclude set is built, the search-symbols
\* request is sent and the picker is shown on the pending response.
InvokeMoveStaticMember ==
    /\ UNCHANGED concVars
    /\ UNCHANGED <<moveDestinations, pickResult, caught>>
    /\ pc = "idle"
    /\ flow' = "moveStaticMember" /\ command' = "moveStaticMember"
    /\ \E info \in MemberInfos :
         /\ commandInfo' = info
         /\ IF info.isNull
              THEN /\ Stop("threw") /\ UNCHANGED exclude
              ELSE /\ exclude' = ExcludeOf(info)
                   /\ inFlight' = SearchSymbolsRequest
                   /\ sent' = SendRequest(sent, "searchSymbols")
                   /\ prompts' = prompts + 1
                   /\ pc' = "ms_search"
                   /\ UNCHANGED <<pickerItems, refactorEdit, saveVars,
                                  editorVars, dismissed, errReceived>>
    /\ UNCHANGED <<fileUris, fs, messages>>

\* The search-symbols response has arrived: the picker gets its items.
MoveStaticMemberSymbols ==
    /\ UNCHANGED concVars
    /\ UNCHANGED <<moveDestinations, pickResult, caught>>
    /\ pc = "ms_search"
    /\ \E response \in SymbolResponses :
         pickerItems' = StaticMemberItems(response, exclude)
    /\ inFlight' = NoRequest
    /\ pc' = "ms_pick"
    /\ UNCHANGED <<flow, localVars, refactorEdit, saveVars, messages, sent,
                   prompts, editorVars, dismissed, errReceived>>

\* The user dismisses the picker while the symbols are still being searched.
MoveStaticMemberDismissedEarly ==
    /\ UNCHANGED concVars
    /\ UNCHANGED <<moveDestinations, pickResult, caught>>
    /\ pc = "ms_search"
    /\ dismissed' = TRUE
    /\ pc' = "done"
    /\ UNCHANGED <<flow, localVars, inFlight, pickerItems, refactorEdit,
                   saveVars, messages, sent, prompts, editorVars, errReceived>>

\* The symbol picker has resolved: with a picked symbol the move request is
\* sent; a dismissal or the 'No result found' item ends the handler.
MoveStaticMemberPicked ==
    /\ UNCHANGED concVars
    /\ UNCHANGED <<moveDestinations, caught>>
    /\ pc = "ms_pick"
    /\ \E choice \in 0..Len(pickerItems) :
         LET picked == PickerResult(pickerItems, choice)
         IN  /\ dismissed' = (choice = 0)
             /\ pickResult' = picked
             /\ IF ~NotSelected(picked) /\ picked.node # NoNode
                  THEN /\ inFlight' = MoveRequest("moveStaticMember",
                                                  <<DocUri>>, picked.node)
                       /\ sent' = SendRequest(sent, "move")
                       /\ pc' = "mv_wait"
                  ELSE /\ pc' = "done"
                       /\ UNCHANGED <<inFlight, sent>>
    /\ pickerItems' = <<>>
    /\ UNCHANGED <<flow, localVars, refactorEdit, saveVars, messages, prompts,
                   editorVars, errReceived>>

\* ----------------------------------------------------- edit applier (actions)
\* The compute-refactor-edit or move response has arrived and the handler
\* calls applyRefactorEdit, which runs up to its first await.
ResultReceived ==
    /\ UNCHANGED concVars
    /\ UNCHANGED <<moveDestinations, caught>>
    /\ pc \in {"ex_wait", "mv_wait"}
    /\ \E result \in ResultsUpTo(MaxFlowChanges) :
         LET phase == applyRefactorEdit(result)
         IN  /\ refactorEdit' = result
             /\ errReceived' = IF ~result.isNull /\ Truthy(result.errorMessage)
                                 THEN errReceived \cup {result.errorMessage}
                                 ELSE errReceived
             /\ messages' = IF phase = "error"
                              THEN Append(messages,
                                          ErrorMsg(<<result.errorMessage>>))
                              ELSE messages
             /\ applyEdits' = IF phase = "applyEdit" THEN applyEdits + 1
                              ELSE applyEdits
             /\ executed' = IF phase = "execute"
                              THEN Append(executed, CommandCall(result.command))
                              ELSE executed
             /\ pc' = IF phase = "applyEdit" THEN "ap_edit"
                      ELSE IF phase = "execute" THEN "ap_cmd"
                      ELSE "applied"
    /\ inFlight' = NoRequest
    /\ command' = Undef /\ commandInfo' = NoCommandInfo /\ exclude' = {}
    /\ pickResult' = NoItem
    /\ UNCHANGED <<flow, fileUris, fs, pickerItems, saveVars, sent, prompts,
                   dismissed>>

\* workspace.applyEdit has resolved: the follow-up command, if any, is called.
EditApplied ==
    /\ UNCHANGED concVars
    /\ UNCHANGED <<moveDestinations, pickResult, caught>>
    /\ pc = "ap_edit"
    /\ IF applyRefactorEditAfterEdit(refactorEdit) = "execute"
         THEN /\ executed' = Append(executed, CommandCall(refactorEdit.command))
              /\ pc' = "ap_cmd"
         ELSE /\ pc' = "applied"
              /\ UNCHANGED executed
    /\ UNCHANGED <<flow, localVars, inFlight, pickerItems, refactorEdit,
                   saveVars, messages, sent, prompts, applyEdits, dismissed,
                   errReceived>>

\* The follow-up command has resolved: applyRefactorEdit returns.
CommandExecuted ==
    /\ UNCHANGED concVars
    /\ UNCHANGED <<moveDestinations, pickResult, caught>>
    /\ pc = "ap_cmd"
    /\ pc' = "applied"
    /\ UNCHANGED <<flow, localVars, inFlight, pickerItems, refactorEdit,
                   saveVars, messages, sent, prompts, editorVars, dismissed,
                   errReceived>>

\* Extract, moveInstanceMethod and moveStaticMember end when applyRefactorEdit
\* has returned.
FlowReturn ==
    /\ UNCHANGED concVars
    /\ UNCHANGED <<moveDestinations, pickResult, caught>>
    /\ pc = "applied" /\ flow # "moveFile"
    /\ pc' = "done"
    /\ UNCHANGED <<flow, localVars, inFlight, pickerItems, refactorEdit,
                   saveVars, messages, sent, prompts, editorVars, dismissed,
                   errReceived>>

\* The handler's promise has settled; the next command can be invoked.
Return ==
    /\ UNCHANGED concVars
    /\ pc \in {"done", "threw"}
    /\ pc' = "idle" /\ flow' = "none" /\ command' = Undef /\ fileUris' = <<>>
    /\ commandInfo' = NoCommandInfo /\ exclude' = {} /\ inFlight' = NoRequest
    /\ pickerItems' = <<>> /\ fs' = {} /\ refactorEdit' = NullResult
    /\ touchedFiles' = <<>> /\ saveLog' = <<>> /\ messages' = <<>>
    /\ sent' = <<>> /\ prompts' = 0 /\ applyEdits' = 0
    /\ executed' = <<>> /\ dismissed' = FALSE /\ errReceived' = {}
    /\ moveDestinations' = NullDestinations /\ pickResult' = NoItem
    /\ caught' = <<>>


\* ------------------------------------------------------ moveFile: save step
\* moveFile after applyRefactorEdit has returned: saveEdit is entered when the
\* result has an edit, and computes its save targets before the first await.
MoveFileSaveEdit ==
    /\ UNCHANGED concVars
    /\ UNCHANGED <<moveDestinations, pickResult, caught>>
    /\ pc = "applied" /\ flow = "moveFile"
    /\ IF ~refactorEdit.isNull /\ refactorEdit.edit.present
         THEN /\ touchedFiles' = TouchedFilesOf(refactorEdit.edit)
              /\ pc' = IF Len(TouchedFilesOf(refactorEdit.edit)) = 0
                         THEN "done" ELSE "sv_loop"
         ELSE /\ pc' = "done"
              /\ UNCHANGED touchedFiles
    /\ UNCHANGED <<flow, command, fileUris, commandInfo, exclude, inFlight, pickerItems,
                   fs, refactorEdit, saveLog, messages, sent,
                   prompts, applyEdits, executed, dismissed, errReceived>>

\* What the editor can answer to openTextDocument followed by save.
SaveOutcomes == {"saved", "saveFalse", "saveThrows", "openNull", "openThrows"}

\* One iteration of the loop over touchedFiles: open the document, skip it
\* when it is null, save it.  A rejection of either await leaves the loop.
SaveNext ==
    /\ UNCHANGED concVars
    /\ UNCHANGED <<moveDestinations, pickResult, caught>>
    /\ pc = "sv_loop"
    /\ \E outcome \in SaveOutcomes :
         LET fileUri == touchedFiles[Len(saveLog) + 1]
             log     == Append(saveLog, [uri |-> fileUri, outcome |-> outcome])
         IN  /\ saveLog' = log
             /\ pc' = IF outcome \in {"saveThrows", "openThrows"} THEN "threw"
                      ELSE IF Len(log) = Len(touchedFiles) THEN "done"
                      ELSE "sv_loop"
    /\ UNCHANGED <<flow, command, fileUris, commandInfo, exclude, inFlight, pickerItems,
                   fs, refactorEdit, touchedFiles, messages, sent,
                   prompts, applyEdits, executed, dismissed, errReceived>>

\* Documents whose save() resolved true, and documents openTextDocument was
\* called for.
SavedDocs  == {saveLog[i].uri : i \in {j \in 1..Len(saveLog) :
                                          saveLog[j].outcome = "saved"}}
OpenedDocs == {saveLog[i].uri : i \in 1..Len(saveLog)}

\* ------------------------------------------------------------- specification
Next ==
    \/ InvokeRename \/ RenameOpened \/ RenameExecuted
    \/ InvokeExtract \/ ExtractPicked
    \/ InvokeMoveFile \/ CallMoveFile \/ MoveFileDestinations
    \/ MoveFilePicked
    \/ InvokeMoveInstanceMethod \/ MoveInstanceMethodDestinations
    \/ MoveInstanceMethodPicked
    \/ InvokeMoveStaticMember \/ MoveStaticMemberSymbols
    \/ MoveStaticMemberDismissedEarly \/ MoveStaticMemberPicked
    \/ ResultReceived \/ EditApplied \/ CommandExecuted \/ FlowReturn
    \/ MoveFileSaveEdit \/ SaveNext \/ Return

Spec == Init /\ [][Next]_vars


\* The save step on its own: moveFile at the point where applyRefactorEdit has
\* applied the edit of a move result and returned.
InitSave ==
    /\ pc = "applied" /\ flow = "moveFile" /\ command = Undef
    /\ fileUris = <<>> /\ commandInfo = NoCommandInfo /\ exclude = {} /\ inFlight = NoRequest
    /\ pickerItems = <<>> /\ fs = {}
    /\ refactorEdit \in [isNull : {FALSE}, errorMessage : {Undef},
                         edit : EditsUpTo(MaxChanges), command : {NoCommand}]
    /\ touchedFiles = <<>> /\ saveLog = <<>> /\ messages = <<>>
    /\ sent = <<"getMoveDestinations", "move">>
    /\ prompts = 1 /\ applyEdits = 1
    /\ executed = <<>> /\ dismissed = FALSE /\ errReceived = {}
    /\ moveDestinations = NullDestinations /\ pickResult = NoItem
    /\ caught = <<>>
    /\ invocations = [h \in Handlers |-> NotStarted]
    /\ started = <<>> /\ applyLog = <<>>

NextSave == MoveFileSaveEdit \/ SaveNext

SpecSave == InitSave /\ [][NextSave]_vars

\* ------------------------------------------------- concurrent invocations
\* The APPLY_REFACTORING_COMMAND callback is an async function registered with
\* commands.registerCommand: every invocation runs it anew, and each await
\* returns control to the editor.  SpecConc runs MaxConcurrent invocations of
\* the extract branch side by side; each has its own locals.

\* A handler that would start only when no other invocation is suspended
\* (mutant).
CanStartExclusive(inv, h) ==
    /\ inv[h].pc = "idle"
    /\ \A g \in Handlers : inv[g].pc \in {"idle", "done", "threw"}

\* The callback tests no flag and takes no lock: an invocation that has not
\* been started can start whatever the others are doing.
CanStart(inv, h) == inv[h].pc = "idle"

\* The results of SpecConc: every shape of result, with an edit that names no
\* document.
ConcResults == {r \in ResultsUpTo(0) : r.edit.changes = <<>>}

\* Invocation h, extract branch, up to its first await: the scope picker or
\* the compute-refactor-edit request.
ConcInvoke(h) ==
    /\ CanStart(invocations, h)
    /\ started' = Append(started, h)
    /\ \E cmd \in ExtractCommands, info \in ExtractInfos, editor \in BOOLEAN :
         invocations' = [invocations EXCEPT ![h].pc =
            IF ~editor THEN "done"
            ELSE IF cmd \in FieldCommands /\ info.isNull THEN "threw"
            ELSE IF cmd \in FieldCommands /\ info.hasScopes
                      /\ Len(info.initializedScopes) > 1
              THEN "ex_pick"
            ELSE "ex_wait"]
    /\ UNCHANGED <<flowVars, applyLog>>

\* The scope picker of invocation h has resolved.
ConcPicked(h) ==
    /\ invocations[h].pc = "ex_pick"
    /\ \E scopes \in SeqUpTo(Scopes, MaxScopes) :
         /\ Len(scopes) > 1
         /\ \E choice \in 0..Len(scopes) :
              LET initializeIn == PickerResult(ScopeItems(scopes), choice)
              IN  invocations' = [invocations EXCEPT ![h].pc =
                     IF NotSelected(initializeIn) THEN "done"
                     ELSE "ex_wait"]
    /\ UNCHANGED <<flowVars, started, applyLog>>

\* The response to the request of invocation h has arrived and
\* applyRefactorEdit runs up to its first await.
ConcResultReceived(h) ==
    /\ invocations[h].pc = "ex_wait"
    /\ \E result \in ConcResults :
         LET phase == applyRefactorEdit(result)
         IN  /\ invocations' = [invocations EXCEPT
                   ![h] = [pc |-> IF phase = "applyEdit" THEN "ap_edit"
                                  ELSE IF phase = "execute" THEN "ap_cmd"
                                  ELSE "done",
                           refactorEdit |-> result]]
             /\ applyLog' = IF phase = "applyEdit" THEN Append(applyLog, h)
                            ELSE applyLog
    /\ UNCHANGED <<flowVars, started>>

\* workspace.applyEdit of invocation h has resolved.
ConcEditApplied(h) ==
    /\ invocations[h].pc = "ap_edit"
    /\ invocations' = [invocations EXCEPT ![h].pc =
          IF applyRefactorEditAfterEdit(invocations[h].refactorEdit)
               = "execute"
            THEN "ap_cmd" ELSE "done"]
    /\ UNCHANGED <<flowVars, started, applyLog>>

\* The follow-up command of invocation h has resolved.
ConcCommandExecuted(h) ==
    /\ invocations[h].pc = "ap_cmd"
    /\ invocations' = [invocations EXCEPT ![h].pc = "done"]
    /\ UNCHANGED <<flowVars, started, applyLog>>

NextConc ==
    \E h \in Handlers :
       \/ ConcInvoke(h) \/ ConcPicked(h) \/ ConcResultReceived(h)
       \/ ConcEditApplied(h) \/ ConcCommandExecuted(h)

SpecConc == Init /\ [][NextConc]_vars

\* ================================================================ properties
\* saveEdit has been entered by the running moveFile invocation.
SaveEditRan ==
    /\ flow = "moveFile" /\ pc \in {"sv_loop", "done", "threw"}
    /\ ~refactorEdit.isNull /\ refactorEdit.edit.present

\* The uri under which the document known as u before the changes cs is found
\* after them: every rename of it is followed, a delete of it ends it (Undef).
RECURSIVE FinalUri(_, _)
FinalUri(u, cs) ==
    IF Len(cs) = 0 THEN u
    ELSE IF cs[1].kind = "rename" /\ cs[1].uri = u
      THEN FinalUri(cs[1].newUri, Tail(cs))
    ELSE IF cs[1].kind = "delete" /\ cs[1].uri = u THEN Undef
    ELSE FinalUri(u, Tail(cs))

\* The documents an edit touches with text changes, each under its final uri.
FinalTouched(edit) ==
    LET dc == edit.documentChanges
    IN  ({FinalUri(u, dc) : u \in Range(edit.changes)}
           \cup {FinalUri(dc[i].uri, SubSeq(dc, i + 1, Len(dc))) :
                   i \in {j \in 1..Len(dc) : dc[j].kind = "text"}})
        \ {Undef}

AllSaved == \A i \in 1..Len(saveLog) : saveLog[i].outcome = "saved"

\* C2: in the move-file flow the save step targets exactly the documents the
\* edit touched with text changes, each under its final uri after the renames
\* and deletes of the edit; it opens no other document, and when every open
\* and save succeeds the documents saved are exactly those.
C2_SavedExactlyTouched ==
    SaveEditRan =>
      /\ Range(touchedFiles) = FinalTouched(refactorEdit.edit)
      /\ OpenedDocs \subseteq FinalTouched(refactorEdit.edit)
      /\ (pc = "done" /\ AllSaved) =>
            SavedDocs = FinalTouched(refactorEdit.edit)

\* C2 witness: an edit with a text edit, a rename and a delete whose final
\* documents differ from the uris it names was saved completely.
C2_Witness ==
    /\ SaveEditRan /\ pc = "done" /\ AllSaved /\ SavedDocs # {}
    /\ \E i, j, k \in 1..Len(refactorEdit.edit.documentChanges) :
         /\ refactorEdit.edit.documentChanges[i].kind = "text"
         /\ refactorEdit.edit.documentChanges[j].kind = "rename"
         /\ refactorEdit.edit.documentChanges[k].kind = "delete"
         /\ i < j
         /\ refactorEdit.edit.documentChanges[i].uri
              = refactorEdit.edit.documentChanges[j].uri
         /\ refactorEdit.edit.documentChanges[j].newUri \in SavedDocs
         /\ refactorEdit.edit.documentChanges[j].uri \notin SavedDocs

\* The positions of the rename file-changes of an edit.
RenameIndexes(edit) ==
    {i \in 1..Len(edit.documentChanges) :
        edit.documentChanges[i].kind = "rename"}

\* C3 as stated: whenever the edit has exactly one rename file-change, from
\* oldUri to a different newUri, the save step targets newUri and not oldUri.
C3_RenameTargetsNewUri ==
    SaveEditRan =>
      \A i \in RenameIndexes(refactorEdit.edit) :
        LET r == refactorEdit.edit.documentChanges[i]
        IN  (RenameIndexes(refactorEdit.edit) = {i} /\ r.uri # r.newUri) =>
              /\ r.newUri \in Range(touchedFiles)
              /\ r.uri \notin Range(touchedFiles)

\* u is a save target when the change at position i is reached, where no
\* rename precedes i: it is a key of edit.changes or the document of an
\* earlier text edit, and no delete of it follows that.
TouchedBefore(edit, u, i) ==
    LET dc == edit.documentChanges
        deletedIn(a, b) == \E k \in a..b : dc[k].kind = "delete" /\ dc[k].uri = u
    IN  \/ u \in Range(edit.changes) /\ ~deletedIn(1, i - 1)
        \/ \E j \in 1..(i - 1) :
              dc[j].kind = "text" /\ dc[j].uri = u /\ ~deletedIn(j + 1, i - 1)

\* C3 amended: with exactly one rename file-change, from oldUri to a different
\* newUri: if oldUri is a save target when the rename is reached and newUri is
\* not deleted afterwards, the save step targets newUri; it targets oldUri
\* only if a later text edit names oldUri; and the rename of a document that
\* is no save target makes newUri no target.
C3_RenameOfTouchedTargetsNewUri ==
    SaveEditRan =>
      \A i \in RenameIndexes(refactorEdit.edit) :
        LET e  == refactorEdit.edit
            dc == e.documentChanges
            r  == dc[i]
            later(kind, u) ==
                \E k \in (i + 1)..Len(dc) : dc[k].kind = kind /\ dc[k].uri = u
        IN  (RenameIndexes(e) = {i} /\ r.uri # r.newUri) =>
              /\ (TouchedBefore(e, r.uri, i) /\ ~later("delete", r.newUri))
                    => r.newUri \in Range(touchedFiles)
              /\ ~later("text", r.uri) => r.uri \notin Range(touchedFiles)
              /\ (~TouchedBefore(e, r.uri, i) /\ ~TouchedBefore(e, r.newUri, i)
                    /\ ~later("text", r.newUri))
                    => r.newUri \notin Range(touchedFiles)

\* C3 witness: the only rename of the edit renames a document an earlier text
\* edit touched, and the save step has saved it under the new uri.
C3_Witness ==
    /\ SaveEditRan /\ pc = "done"
    /\ \E i \in RenameIndexes(refactorEdit.edit) :
         LET r == refactorEdit.edit.documentChanges[i]
         IN  /\ RenameIndexes(refactorEdit.edit) = {i} /\ r.uri # r.newUri
             /\ refactorEdit.edit.changes = <<>>
             /\ TouchedBefore(refactorEdit.edit, r.uri, i)
             /\ r.newUri \in SavedDocs /\ r.uri \notin OpenedDocs

\* C1: whenever the result handed to applyRefactorEdit has an error message
\* (with or without an edit or a follow-up command), that message is shown
\* unchanged, workspace.applyEdit is not called and no follow-up command is
\* executed.
C1_ErrorMessageStopsApplier ==
    (~refactorEdit.isNull /\ Truthy(refactorEdit.errorMessage)) =>
      /\ ErrorMsg(<<refactorEdit.errorMessage>>) \in Range(messages)
      /\ applyEdits = 0
      /\ executed = <<>>

\* C1 witness: a result with an error message, an edit and a follow-up command
\* has been through the applier and the handler has ended.
C1_Witness ==
    /\ pc = "done" /\ ~refactorEdit.isNull
    /\ Truthy(refactorEdit.errorMessage)
    /\ refactorEdit.edit.present /\ refactorEdit.command.present
    /\ messages = <<ErrorMsg(<<refactorEdit.errorMessage>>)>>

\* All files of the list lie in one directory.
SameParent(uris) ==
    \A i, j \in 1..Len(uris) : Dirname(uris[i]) = Dirname(uris[j])

\* The names between the fixed parts of the 'already exist' warning.
WarnedNames(message) == SubSeq(message.text, 2, Len(message.text) - 3)

\* The step of moveFile that follows the choice of a destination (the user
\* did not dismiss the picker).
DestinationChosen == pc = "mf_pick" /\ pc' # "mf_pick" /\ ~dismissed'

C5_DifferentDirectoriesRefused ==
    (flow = "moveFile" /\ ~SameParent(fileUris)) =>
      /\ messages = <<ErrorMsg(DifferentDirsText)>>
      /\ sent = <<>> /\ inFlight = NoRequest
      /\ prompts = 0 /\ pickerItems = <<>>
      /\ applyEdits = 0 /\ executed = <<>> /\ saveLog = <<>>
      /\ pc = "done"

\* C5 witness: moveFile was called with two files of different directories and
\* has ended with the error message.
C5_Witness ==
    /\ flow = "moveFile" /\ pc = "done" /\ Len(fileUris) = 2
    /\ Dirname(fileUris[1]) # Dirname(fileUris[2])
    /\ ErrorMsg(DifferentDirsText) \in Range(messages)

\* The qualified names of the symbols shown in the picker.
ShownTypeNames ==
    {TypeName(pickerItems[i].node) :
        i \in {j \in 1..Len(pickerItems) : pickerItems[j].node # NoNode}}

\* C6: in the move-static-member flow, with an enclosing type name and a
\* member kind of 55, 71 or 81, the picker never shows a candidate whose
\* qualified name is enclosingTypeName.displayName.
C6_MemberItselfExcluded ==
    (pc = "ms_pick" /\ Len(commandInfo.enclosingTypeName) > 0
       /\ commandInfo.memberType \in {55, 71, 81})
      => (commandInfo.enclosingTypeName \o <<commandInfo.displayName>>)
            \notin ShownTypeNames

\* C7: in the move-static-member flow, with an enclosing type name, the picker
\* never shows a candidate whose qualified name is the enclosing type name.
C7_EnclosingTypeExcluded ==
    (pc = "ms_pick" /\ Len(commandInfo.enclosingTypeName) > 0)
      => commandInfo.enclosingTypeName \notin ShownTypeNames

\* C7 witness: the server answered with symbols (the picker does not show 'No
\* result found'), only the enclosing type is excluded, and the picker shows
\* none of them: every symbol returned was the enclosing type.
C7_Witness ==
    /\ pc = "ms_pick" /\ pickerItems = <<>>
    /\ exclude = {commandInfo.enclosingTypeName}
    /\ Len(commandInfo.enclosingTypeName) > 0

\* C8 as stated: at most one request to the language server, one picker and
\* one edit application per invocation.
C8_AtMostOneRoundTrip ==
    /\ Len(sent) <= 1
    /\ prompts <= 1
    /\ applyEdits <= 1

\* C8 amended: at most one picker and one edit application per invocation;
\* the rename trigger sends no request, the extract flow at most one, and a
\* move flow at most two: the request for the candidates and then the move
\* request.
C8_AtMostTwoRoundTrips ==
    /\ prompts <= 1
    /\ applyEdits <= 1
    /\ Len(sent) <= 2
    /\ flow = "rename" => sent = <<>> /\ prompts = 0 /\ applyEdits = 0
    /\ flow = "extract" => sent \in {<<>>, <<"getRefactorEdit">>}
    /\ Len(sent) = 2 =>
          /\ flow \in {"moveFile", "moveInstanceMethod", "moveStaticMember"}
          /\ sent[1] \in {"getMoveDestinations", "searchSymbols"}
          /\ sent[2] = "move"

\* C8 witness: a move flow has ended after two requests, one picker and one
\* edit application.
C8_Witness ==
    /\ pc = "done" /\ sent = <<"getMoveDestinations", "move">>
    /\ prompts = 1 /\ applyEdits = 1

\* C9: once the user has dismissed a picker, the handler has ended, and from
\* the dismissal on it sends no request, applies no edit, executes no command
\* and opens or saves no document.
C9_NothingAfterDismissal ==
    /\ [](dismissed => pc = "done")
    /\ [][dismissed' =>
            /\ sent' = sent /\ inFlight' = inFlight
            /\ applyEdits' = applyEdits /\ executed' = executed
            /\ saveLog' = saveLog]_vars

\* C9 witness: the package picker of moveFile was dismissed after the
\* destinations had been fetched.
C9_Witness ==
    /\ dismissed /\ pc = "done" /\ flow = "moveFile"
    /\ sent = <<"getMoveDestinations">> /\ prompts = 1

\* C10: every error message received in a response of the language server is
\* shown verbatim, and once one has been received the handler shows no picker
\* and sends no further request.
C10_ServerErrorShownVerbatim ==
    /\ [](\A m \in errReceived : ErrorMsg(<<m>>) \in Range(messages))
    /\ [][errReceived' # {} =>
            /\ prompts' = prompts /\ sent' = sent
            /\ pc' \notin {"ex_pick", "mf_pick", "mi_pick", "ms_pick"}]_vars

\* C11: in the save step, a failure to open or to save one touched document
\* does not stop the others: once saveEdit is over, openTextDocument has been
\* called for every save target, and every target whose open and save did not
\* fail is saved.
C11_SaveFailureDoesNotHalt ==
    (SaveEditRan /\ pc \in {"done", "threw"}) =>
      /\ OpenedDocs = Range(touchedFiles)
      /\ Len(saveLog) = Len(touchedFiles)

\* C12: in the rename trigger, whatever step fails (Uri.parse, openTextDocument,
\* positionAt, executeCommand), the handler completes normally: the failure
\* does not leave the handler, no message is shown and no request is sent to
\* the language server.
C12_RenameFailuresSwallowed ==
    flow = "rename" =>
      /\ pc # "threw"
      /\ messages = <<>>
      /\ sent = <<>>
      /\ caught # <<>> => pc = "done"

\* The rename command itself was executed and its rejection was caught.
C12_Witness ==
    /\ flow = "rename" /\ pc = "done"
    /\ caught = <<"executeCommand">>
    /\ Len(executed) = 1

\* The failure message of a flow whose get-move-destinations response brings
\* no destination.
NoDestinationsMessages ==
    IF flow = "moveFile" THEN {ErrorMsg(NoPackagesText)}
    ELSE {ErrorMsg(NoClassTargetsText)}
           \cup {ErrorMsg(<<e>>) : e \in ErrorMessages \ {Undef, ""}}

\* C13: in the move-file and move-instance-method flows, the step that
\* receives a get-move-destinations response that is missing or has no
\* destination shows a failure message and ends the handler, with no picker
\* shown, no request sent and no edit applied; and a handler that has ended
\* does nothing more.
C13_NoDestinationsReportsFailure ==
    [][/\ (pc \in {"mf_dest", "mi_dest"} /\ (moveDestinations'.isNull
             \/ Len(moveDestinations'.destinations) = 0)) =>
            /\ pc' = "done"
            /\ Len(messages') = Len(messages) + 1
            /\ Last(messages') \in NoDestinationsMessages
            /\ prompts' = 0 /\ pickerItems' = <<>>
            /\ sent' = <<"getMoveDestinations">>
            /\ applyEdits' = 0 /\ executed' = <<>> /\ saveLog' = <<>>
       /\ pc = "done" =>
            /\ pc' = "idle" /\ sent' = <<>> /\ prompts' = 0
            /\ applyEdits' = 0]_vars

\* moveFile has received a response with an empty destination list and has
\* ended with the failure message.
C13_Witness ==
    /\ flow = "moveFile" /\ pc = "done"
    /\ ~moveDestinations.isNull /\ moveDestinations.destinations = <<>>
    /\ messages = <<ErrorMsg(NoPackagesText)>>
    /\ sent = <<"getMoveDestinations">> /\ prompts = 0

\* The result in hand has no error message and carries an edit and a
\* follow-up command.
EditAndCommand ==
    /\ ~refactorEdit.isNull /\ ~Truthy(refactorEdit.errorMessage)
    /\ refactorEdit.edit.present /\ refactorEdit.command.present

\* C14: for a result with no error message, an edit and a follow-up command,
\* the follow-up command is not called while workspace.applyEdit is pending,
\* is called once with the result's arguments when it has resolved, and no
\* save target is computed and no document is opened or saved before the
\* follow-up command has resolved.
C14_FollowUpOnceAfterEdit ==
    EditAndCommand =>
      /\ applyEdits = 1
      /\ pc = "ap_edit" => executed = <<>>
      /\ pc # "ap_edit" =>
           executed = <<[command |-> refactorEdit.command.command,
                         arguments |->
                           IF refactorEdit.command.hasArguments
                             THEN refactorEdit.command.arguments
                             ELSE <<>>]>>
      /\ pc \in {"ap_edit", "ap_cmd"} =>
           touchedFiles = <<>> /\ saveLog = <<>>

\* moveFile has applied the edit, called the follow-up command with its
\* argument and then saved a document.
C14_Witness ==
    /\ EditAndCommand /\ flow = "moveFile" /\ pc = "done"
    /\ refactorEdit.command.hasArguments
    /\ executed = <<[command |-> "java.followUp", arguments |-> <<"a1">>]>>
    /\ SavedDocs # {}

\* Invocation g was started before invocation h.
StartedBefore(g, h) ==
    \E i, j \in 1..Len(started) : i < j /\ started[i] = g /\ started[j] = h

\* C15: invocations are not mutually excluded.  While an invocation is
\* suspended at its picker or at its server request, an invocation that has
\* not been started can start, and a later invocation that waits for its
\* response can receive it and go on to its edit application.
C15_NoMutualExclusion ==
    \A g \in Handlers : \A h \in Handlers \ {g} :
        invocations[g].pc \in {"ex_pick", "ex_wait"} =>
          /\ invocations[h].pc = "idle" => ENABLED ConcInvoke(h)
          /\ (invocations[h].pc = "ex_wait" /\ StartedBefore(g, h)) =>
               ENABLED ConcResultReceived(h)

\* The invocation started second has called workspace.applyEdit before the
\* one started first.
C15_Witness ==
    /\ Len(applyLog) >= 2 /\ Len(started) >= 2
    /\ applyLog[1] = started[2] /\ applyLog[2] = started[1]

\* C16: in the move-file flow a document is opened or saved only if the edit
\* of the move result was handed to workspace.applyEdit in this invocation;
\* with an error message in the move result no document is opened or saved.
C16_SavedOnlyIfApplied ==
    flow = "moveFile" =>
      /\ OpenedDocs # {} => applyEdits = 1
      /\ (~refactorEdit.isNull /\ Truthy(refactorEdit.errorMessage)) =>
           OpenedDocs = {}

\* A package directory was chosen and every file of the list exists there.
AllCollide ==
    /\ flow = "moveFile" /\ pickResult # NoItem
    /\ Len(pickResult.node.uri) > 0 /\ Len(fileUris) > 0
    /\ \A i \in 1..Len(fileUris) :
         PathJoin(pickResult.node.uri, getFileNameFromUri(fileUris[i]))
           \in fs

\* C17: in the move-file flow, when every selected file collides with a file
\* of the chosen package directory, the warning that names them is shown and
\* the handler ends: no move request is sent, no edit is applied, no command
\* is executed and no document is opened or saved.
C17_AllCollidingEndsFlow ==
    AllCollide =>
      /\ pc = "done"
      /\ messages = <<WarningMsg(DuplicatedText(FileNamesOf(fileUris),
                                    pickResult.node.displayName))>>
      /\ sent = <<"getMoveDestinations">>
      /\ refactorEdit = NullResult
      /\ applyEdits = 0 /\ executed = <<>>
      /\ touchedFiles = <<>> /\ OpenedDocs = {}

\* The one selected file exists in the chosen package and the warning is out.
C17_Witness ==
    /\ AllCollide /\ pc = "done"
    /\ Len(messages) = 1 /\ messages[1].kind = "warning"

\* C18: the extra argument of the compute-refactor-edit request.  For
\* extractField and convertVariableToField with exactly one pre-computed
\* scope no picker is shown and the request carries that scope; with more
\* than one the picker is shown, nothing is sent while it is open and the
\* request carries exactly the scope the picker resolved to, one of the
\* scopes; for every other extract kind the request carries no argument.
C18_ScopeArgument ==
    /\ (flow = "extract" /\ pc = "ex_pick") => sent = <<>>
    /\ (flow = "extract" /\ pc = "ex_wait") =>
         LET scopes == commandInfo.initializedScopes
             field  == command \in FieldCommands /\ commandInfo.hasScopes
         IN  /\ inFlight.type = "getRefactorEdit"
             /\ inFlight.command = command
             /\ sent = <<"getRefactorEdit">>
             /\ (field /\ Len(scopes) = 1) =>
                  /\ prompts = 0
                  /\ inFlight.commandArguments = <<scopes[1]>>
             /\ (field /\ Len(scopes) > 1) =>
                  /\ prompts = 1
                  /\ pickResult # NoItem
                  /\ \E i \in 1..Len(scopes) : scopes[i] = pickResult.node.id
                  /\ inFlight.commandArguments = <<pickResult.node.id>>
             /\ command \notin FieldCommands =>
                  /\ prompts = 0
                  /\ inFlight.commandArguments = <<>>

\* extractField with two scopes: the picker was shown, the second scope was
\* chosen and is the argument of the request on the wire.
C18_Witness ==
    /\ flow = "extract" /\ pc = "ex_wait" /\ command = "extractField"
    /\ commandInfo.initializedScopes = <<"s1", "s2">>
    /\ prompts = 1
    /\ inFlight.commandArguments = <<"s2">>

====
